---- MODULE Spec2Model ----
(***************************************************************************)
(* The two workflow navigators of the simulator:                           *)
(*   - the hierarchical (FSM) navigator, simulator/fsm-navigator/index.js  *)
(*   - the multi-entry (Petri) navigator, the tools/call handler that      *)
(*     follows the mathematical note in unnamed/part_008                   *)
(* Both load simulator/workflow-test-dataset.json.  One behaviour of the   *)
(* model is one server process: `nav` says which of the two programs runs. *)
(* Every tool call is one action; `last` is the call just handled and the  *)
(* response it produced.  The test harness that drives the servers selects  *)
(* its scenarios with a seeded generator (docs/3-architecture.md); it is a  *)
(* separate process with a state of its own.                               *)
(***************************************************************************)
EXTENDS Integers, Sequences, FiniteSets, TLC

\* ------------------------------------------------------------------ bounds

\* The number of tool calls of a session with free arguments (caps toolCallCount).
MaxCalls == 3

\* The number of tool calls of a session that only makes the calls of the
\* documented scenarios (caps toolCallCount).
MaxFlowCalls == 6

\* The largest num_tests and the largest seed the harness is run with.
MaxPick == 2

MaxSeed == 1

\* --------------------------------------------------------- JavaScript values

Null == "null"
Undefined == "undefined"

\* !v for the values an assignee can hold
Falsy(v) == v \in {Null, Undefined, ""}

\* The characters of every string the handlers inspect character-wise.
CharsOf(s) ==
  CASE s = "root" -> <<"r","o","o","t">>
  [] s = "projects" -> <<"p","r","o","j","e","c","t","s">>
  [] s = "project-web" -> <<"p","r","o","j","e","c","t","-","w","e","b">>
  [] s = "task-auth" -> <<"t","a","s","k","-","a","u","t","h">>
  [] s = "task-ui" -> <<"t","a","s","k","-","u","i">>
  [] s = "task-api" -> <<"t","a","s","k","-","a","p","i">>
  [] s = "task-deploy" -> <<"t","a","s","k","-","d","e","p","l","o","y">>
  [] s = "bug-login" -> <<"b","u","g","-","l","o","g","i","n">>
  [] s = "bug-performance" -> <<"b","u","g","-","p","e","r","f","o","r","m","a","n","c","e">>
  [] s = "task-ghost" -> <<"t","a","s","k","-","g","h","o","s","t">>
  [] s = "constructor" -> <<"c","o","n","s","t","r","u","c","t","o","r">>
  [] s = "task-" -> <<"t","a","s","k","-">>
  [] s = "bug-" -> <<"b","u","g","-">>
  [] s = "auth" -> <<"a","u","t","h">>
  [] s = "DE" -> <<"D","E">>
  [] s = "on" -> <<"o","n">>
  [] s = "Implement Authentication" -> <<"I","m","p","l","e","m","e","n","t"," ","A","u","t","h","e","n","t","i","c","a","t","i","o","n">>
  [] s = "Design User Interface" -> <<"D","e","s","i","g","n"," ","U","s","e","r"," ","I","n","t","e","r","f","a","c","e">>
  [] s = "Build REST API" -> <<"B","u","i","l","d"," ","R","E","S","T"," ","A","P","I">>
  [] s = "Deploy to Production" -> <<"D","e","p","l","o","y"," ","t","o"," ","P","r","o","d","u","c","t","i","o","n">>

\* String.prototype.startsWith
StartsWith(s, p) ==
  LET cs == CharsOf(s)
      cp == CharsOf(p)
  IN  Len(cs) >= Len(cp) /\ SubSeq(cs, 1, Len(cp)) = cp

LowerChar(c) ==
  CASE c = "A" -> "a" [] c = "B" -> "b" [] c = "D" -> "d" [] c = "E" -> "e"
  [] c = "I" -> "i" [] c = "P" -> "p" [] c = "R" -> "r" [] c = "S" -> "s"
  [] c = "T" -> "t" [] c = "U" -> "u" [] OTHER -> c

\* String.prototype.toLowerCase, on the characters of a string
ToLowerCase(cs) == [i \in 1..Len(cs) |-> LowerChar(cs[i])]

\* String.prototype.includes, on the characters of two strings
Includes(hay, needle) ==
  \E i \in 0..(Len(hay) - Len(needle)) : SubSeq(hay, i + 1, i + Len(needle)) = needle

\* ----------------------------------------------------------------- dataset

ProjectIds == {"project-web"}
TaskOrder == <<"task-auth", "task-ui", "task-api", "task-deploy">>
TaskIds == {TaskOrder[i] : i \in 1..Len(TaskOrder)}
BugIds == {"bug-login", "bug-performance"}
EntityIds == TaskIds \cup BugIds
UserIds == {"user-alice", "user-bob"}

TaskName(t) ==
  CASE t = "task-auth" -> "Implement Authentication"
  [] t = "task-ui" -> "Design User Interface"
  [] t = "task-api" -> "Build REST API"
  [] t = "task-deploy" -> "Deploy to Production"

InitState(e) ==
  CASE e = "task-auth" -> "Open"
  [] e = "task-ui" -> "In Progress"
  [] e = "task-api" -> "Review"
  [] e = "task-deploy" -> "Open"
  [] e = "bug-login" -> "New"
  [] e = "bug-performance" -> "In Progress"

InitAssignee(e) ==
  CASE e = "task-auth" -> Null
  [] e = "task-ui" -> "user-alice"
  [] e = "task-api" -> "user-bob"
  [] e = "task-deploy" -> Null
  [] e = "bug-login" -> Null
  [] e = "bug-performance" -> "user-alice"

FullTaskGraph ==
  [s \in {"Open", "In Progress", "Review", "Testing", "Done"} |->
     CASE s = "Open" -> {"In Progress"}
     [] s = "In Progress" -> {"Review", "Open"}
     [] s = "Review" -> {"Testing", "In Progress"}
     [] s = "Testing" -> {"Done", "Review"}
     [] s = "Done" -> {}]

ShortTaskGraph ==
  [s \in {"Open", "In Progress", "Review", "Done"} |->
     CASE s = "Open" -> {"In Progress"}
     [] s = "In Progress" -> {"Review", "Open"}
     [] s = "Review" -> {"Done", "In Progress"}
     [] s = "Done" -> {}]

DeployGraph ==
  [s \in {"Open", "Ready", "Deploying", "Done"} |->
     CASE s = "Open" -> {"Ready"}
     [] s = "Ready" -> {"Deploying", "Open"}
     [] s = "Deploying" -> {"Done", "Open"}
     [] s = "Done" -> {}]

BugGraph ==
  [s \in {"New", "Assigned", "In Progress", "Fixed", "Verified", "Closed"} |->
     CASE s = "New" -> {"Assigned"}
     [] s = "Assigned" -> {"In Progress", "New"}
     [] s = "In Progress" -> {"Fixed", "Assigned"}
     [] s = "Fixed" -> {"Verified", "In Progress"}
     [] s = "Verified" -> {"Closed", "In Progress"}
     [] s = "Closed" -> {}]

\* entity.validTransitions
validTransitions(e) ==
  CASE e \in {"task-auth", "task-api"} -> FullTaskGraph
  [] e = "task-ui" -> ShortTaskGraph
  [] e = "task-deploy" -> DeployGraph
  [] e \in BugIds -> BugGraph

\* entity.dependsOn: the tasks the dataset lists as prerequisites of e
dependsOn(e) ==
  CASE e = "task-ui" -> {"task-auth"}
  [] e = "task-deploy" -> {"task-auth", "task-ui", "task-api"}
  [] OTHER -> {}

\* entity.validStates: no task or bug of the dataset has the field
validStates(e) == [defined |-> FALSE, items |-> {}]

\* workflowData.goals, in file order
Goals ==
  << [id |-> "goal-ship-feature", entity |-> "task-auth", state |-> "Done", action |-> Undefined],
     [id |-> "goal-fix-critical-bug", entity |-> "bug-login", state |-> "Verified", action |-> Undefined],
     [id |-> "goal-complete-review", entity |-> "task-api", state |-> "Testing", action |-> Undefined],
     [id |-> "goal-ready-to-deploy", entity |-> "task-deploy", state |-> "Ready", action |-> Undefined],
     [id |-> "goal-performance-fixed", entity |-> "bug-performance", state |-> "Verified", action |-> Undefined],
     [id |-> "goal-quick-task-start", entity |-> Undefined, state |-> Undefined,
      action |-> "Move any Open task to In Progress"],
     [id |-> "goal-reassign-work", entity |-> Undefined, state |-> Undefined,
      action |-> "Change assignee on any In Progress item"],
     [id |-> "goal-parallel-progress", entity |-> Undefined, state |-> Undefined,
      action |-> "Move 2+ items forward in workflow"] >>

GoalIds == {Goals[i].id : i \in 1..Len(Goals)}

\* ------------------------------------------------------------ call inputs

\* an id that names nothing in the dataset
MissingIds == {"task-ghost"}

\* a name every object inherits from Object.prototype: table[name] is not one
\* of the table's records, yet it is truthy
InheritedKeys == {"constructor"}

ProjectArgs == ProjectIds \cup MissingIds
TaskArgs == TaskIds \cup MissingIds
BugArgs == BugIds \cup MissingIds
EntityArgs == EntityIds \cup MissingIds
\* identifiers of startWorkingOn: ids, fragments of names, a missing argument
IdentifierArgs == TaskIds \cup MissingIds \cup {"auth", "DE", "on", Undefined}
\* identifiers of completeTask and of workOnBug
CompleteArgs == TaskIds \cup MissingIds \cup {"auth", "Build REST API"}
WorkArgs == BugIds \cup MissingIds
UserArgs == {"user-bob", "user-ghost"}
\* requested states: a start state, the state the semantic start targets, goal
\* states of tasks and of bugs, a terminal state
NewStateArgs == {"Open", "In Progress", "Done", "Ready", "Verified"}
\* tool names neither switch statement has a case for
UnhandledTools == {"fixBug", "verifyBug", "assignEntity"}

\* the tools/list catalog of the hierarchical navigator
FsmTools ==
  {"listProjects", "getProject", "listTasks", "listBugs", "getTask", "getBug",
   "getTaskState", "updateTaskState", "updateBugState", "assignTask", "assignBug",
   "navigateToRoot", "checkGoals", "getMetrics"}

\* the tools/list catalog of the multi-entry navigator
PetriTools ==
  {"startWorkingOn", "completeTask", "workOnBug", "fixBug", "verifyBug",
   "checkWorkflow", "getEntity", "updateEntity", "assignEntity", "checkGoals",
   "getMetrics"}

\* the case labels of the multi-entry navigator's switch
PetriCases ==
  {"startWorkingOn", "completeTask", "workOnBug", "checkWorkflow", "getEntity",
   "updateEntity", "checkGoals", "getMetrics"}

\* ------------------------------------------------------------------- state

VARIABLES
  nav,               \* which server runs: "fsm" or "petri"
  location,          \* currentState.location
  context,           \* currentState.context
  toolCallCount,     \* currentState.toolCallCount / petriState.toolCallCount
  goalsFound,        \* currentState.goalsFound / petriState.goalsFound
  entities,          \* workflowData.entities.tasks and .bugs: state, assignee
  places,            \* petriState.places
  semanticHintsUsed, \* petriState.semanticHintsUsed
  last,              \* the call just handled and its response
  announced,         \* how many responses announced each goal as achieved
  listed,            \* the goals checkGoals has had to list as completed so far
  rng,               \* the harness: the state of the module-level generator `random`
  selection,         \* the harness: the select_tests call just made and its result
  selected,          \* the harness: every result select_tests returned, per (num_tests, seed)
  path               \* the calls of a scenario session, in order (not recorded otherwise)

vars == <<nav, location, context, toolCallCount, goalsFound, entities, places,
          semanticHintsUsed, last, announced, listed, rng, selection, selected, path>>

\* the state of a server and of its session
server == <<nav, location, context, toolCallCount, goalsFound, entities, places,
            semanticHintsUsed, last, announced, listed, path>>

\* the state of the harness
harness == <<rng, selection, selected>>

\* the outcomes of a call
Results == {"ok", "notFound", "wrongLocation", "invalidState", "unknownTool", "exception"}

\* the Efficiency line of getMetrics when it names no number
NoEfficiency == [defined |-> FALSE, tenths |-> 0]

\* const hints = { nextSteps: [], suggestions: [] }
NoHints == [nextSteps |-> <<>>, suggestions |-> <<>>]

\* a follow-up call template such as updateTaskState('task-ui', 'Review'): the
\* tool it names and the arguments it shows
Suggest(tool, args) == [tool |-> tool, args |-> args]

\* generateSemanticHints(entity, action): `entity` carries type, id and state;
\* the function never reads `action`
generateSemanticHints(entity) ==
  IF entity.type /= "task" THEN NoHints
  ELSE CASE entity.state = "Open" ->
              [nextSteps |-> << "Task is ready to be started",
                                "Assign to a developer to begin work",
                                "Check dependencies before starting" >>,
               suggestions |-> << Suggest("startWorkingOn", <<entity.id>>),
                                  Suggest("assignTask", <<entity.id, "user-alice">>),
                                  Suggest("checkDependencies", <<>>) >>]
       [] entity.state = "In Progress" ->
              [nextSteps |-> << "Task is being worked on",
                                "Move to Review when complete",
                                "You can log time or add comments" >>,
               suggestions |-> << Suggest("completeTask", <<entity.id>>),
                                  Suggest("updateTaskState", <<entity.id, "Review">>),
                                  Suggest("logTime", <<"2", "Implemented feature">>) >>]
       [] entity.state = "Review" ->
              [nextSteps |-> << "Task is ready for testing",
                                "Address review feedback if needed",
                                "Move to Testing or back to In Progress" >>,
               suggestions |-> << Suggest("updateTaskState", <<entity.id, "Testing">>),
                                  Suggest("updateTaskState", <<entity.id, "In Progress">>),
                                  Suggest("getReviewComments", <<>>) >>]
       [] OTHER -> NoHints

NoCall ==
  [tool |-> "none", id |-> Undefined, arg |-> Undefined, target |-> Null,
   loc |-> "root", pre |-> Null, result |-> "ok", achieved |-> {},
   completed |-> {}, efficiency |-> NoEfficiency, hints |-> NoHints,
   reported |-> <<>>]

\* A call of `tool` with first argument `id` and second argument `arg`, made at
\* location `loc`, that resolved to entity `target` (in state `pre` before the
\* call), ended as `result` and announced the goals `achieved`.  `completed`
\* is the list a checkGoals response shows and `efficiency` the Efficiency line
\* of a getMetrics response; the other responses have neither.  `hints` are
\* the Next Steps and Suggestions (or Available Actions) a response lists and
\* `reported` the entities it shows with their state and assignee.
Reply(tool, id, arg, target, pre, result, achieved) ==
  [tool |-> tool, id |-> id, arg |-> arg, target |-> target, loc |-> location,
   pre |-> pre, result |-> result, achieved |-> achieved,
   completed |-> {}, efficiency |-> NoEfficiency, hints |-> NoHints,
   reported |-> <<>>]

\* (num / den).toFixed(1), in tenths: the nearest tenth, the larger of two
\* equally near ones
ToFixed1(num, den) == (20 * num + den) \div (2 * den)

\* the same line with the quotient defined for no goal too: calls / max(1, goals)
EfficiencyOverMax1(calls, found) ==
  [defined |-> TRUE,
   tenths |-> ToFixed1(calls, IF Len(found) > 1 THEN Len(found) ELSE 1)]

\* goalsFound.length > 0 ? (toolCallCount / goalsFound.length).toFixed(1)
\*                          + ' calls per goal' : 'No goals yet'
Efficiency(calls, found) ==
  IF Len(found) > 0
  THEN [defined |-> TRUE, tenths |-> ToFixed1(calls, Len(found))]
  ELSE NoEfficiency

EmptyContext == [currentProject |-> Undefined, currentTask |-> Undefined, currentBug |-> Undefined]

\* the arguments of select_tests: num_tests and seed
SelectArgs == (1..MaxPick) \X (0..MaxSeed)

\* `again`: the same arguments were selected with before; `moved`: the
\* generator was not in the state the seed sets when the call was made
NoSelection ==
  [num_tests |-> 0, seed |-> 0, tests |-> <<>>, again |-> FALSE, moved |-> FALSE]

\* a server has started; no harness is running
Init ==
  /\ rng = 0
  /\ selection = NoSelection
  /\ selected = [a \in SelectArgs |-> {}]
  /\ nav \in {"fsm", "petri"}
  /\ location = "root"
  /\ context = EmptyContext
  /\ toolCallCount = 0
  /\ goalsFound = <<>>
  /\ entities = [e \in EntityIds |-> [state |-> InitState(e), assignee |-> InitAssignee(e)]]
  /\ places = [e \in EntityIds |->
                 [state |-> InitState(e), assignee |-> InitAssignee(e), justTransitioned |-> FALSE]]
  /\ semanticHintsUsed = 0
  /\ last = NoCall
  /\ announced = [g \in GoalIds |-> 0]
  /\ listed = {}
  /\ path = <<>>

SeqToSet(s) == {s[i] : i \in 1..Len(s)}

\* the goals of `idxs`, as a sequence of ids in file order
RECURSIVE IdsInOrder(_, _)
IdsInOrder(idxs, from) ==
  IF from > Len(Goals) THEN <<>>
  ELSE (IF from \in idxs THEN <<Goals[from].id>> ELSE <<>>) \o IdsInOrder(idxs, from + 1)

\* ------------------------------------------------- hierarchical navigator

\* checkGoalsAfterOperation of the hierarchical navigator: the goals (indexes
\* into Goals) not yet in `found` whose entity is in the goal's state
FsmCheckGoalsAfterOperation(found, ents) ==
  {i \in 1..Len(Goals) :
     /\ Goals[i].id \notin SeqToSet(found)
     /\ Goals[i].entity /= Undefined
     /\ Goals[i].entity \in EntityIds
     /\ ents[Goals[i].entity].state = Goals[i].state}

\* const { name, arguments: args } = request; currentState.toolCallCount++
FsmCall ==
  /\ nav = "fsm"
  /\ toolCallCount' = toolCallCount + 1
  /\ UNCHANGED <<nav, places, semanticHintsUsed>>

ListProjects ==
  /\ FsmCall
  /\ location' = "projects"
  /\ last' = Reply("listProjects", Undefined, Undefined, Null, Null, "ok", {})
  /\ UNCHANGED <<context, goalsFound, entities>>

GetProject(projectId) ==
  /\ FsmCall
  /\ IF projectId \in InheritedKeys
     THEN \* !project is false: the cursor moves, then project.tasks.length throws
          /\ location' = projectId
          /\ context' = [context EXCEPT !.currentProject = projectId]
          /\ last' = Reply("getProject", projectId, Undefined, Null, Null, "exception", {})
     ELSE IF projectId \notin ProjectIds
     THEN /\ last' = Reply("getProject", projectId, Undefined, Null, Null, "notFound", {})
          /\ UNCHANGED <<location, context>>
     ELSE /\ location' = projectId
          /\ context' = [context EXCEPT !.currentProject = projectId]
          /\ last' = Reply("getProject", projectId, Undefined, projectId, Null, "ok", {})
  /\ UNCHANGED <<goalsFound, entities>>

\* listTasks and listBugs share their shape: `tool` is the case label
ListItems(tool, projectId) ==
  /\ FsmCall
  /\ last' = IF location = "root"
             THEN Reply(tool, projectId, Undefined, Null, Null, "wrongLocation", {})
             ELSE IF projectId \notin ProjectIds
             THEN Reply(tool, projectId, Undefined, Null, Null, "notFound", {})
             ELSE Reply(tool, projectId, Undefined, projectId, Null, "ok", {})
  /\ UNCHANGED <<location, context, goalsFound, entities>>

ListTasks(projectId) == ListItems("listTasks", projectId)

ListBugs(projectId) == ListItems("listBugs", projectId)

\* getTask storing the 'None' it prints for a missing assignee
\* (task.assignee = task.assignee || 'None')
GetTaskStoringNone(taskId) ==
  /\ FsmCall
  /\ IF taskId \notin TaskIds
     THEN /\ last' = Reply("getTask", taskId, Undefined, Null, Null, "notFound", {})
          /\ UNCHANGED <<location, context, entities>>
     ELSE /\ location' = taskId
          /\ context' = [context EXCEPT !.currentTask = taskId]
          /\ entities' = [entities EXCEPT ![taskId].assignee =
                                           IF Falsy(@) THEN "None" ELSE @]
          /\ last' = Reply("getTask", taskId, Undefined, taskId, entities[taskId].state,
                           IF validStates(taskId).defined THEN "ok" ELSE "exception", {})
  /\ UNCHANGED goalsFound

\* The cursor and the context move before the response text is built; the text
\* reads task.validStates.join, which throws when the field is absent.
GetTask(taskId) ==
  /\ FsmCall
  /\ IF taskId \in InheritedKeys
     THEN /\ location' = taskId
          /\ context' = [context EXCEPT !.currentTask = taskId]
          /\ last' = Reply("getTask", taskId, Undefined, Null, Null, "exception", {})
     ELSE IF taskId \notin TaskIds
     THEN /\ last' = Reply("getTask", taskId, Undefined, Null, Null, "notFound", {})
          /\ UNCHANGED <<location, context>>
     ELSE /\ location' = taskId
          /\ context' = [context EXCEPT !.currentTask = taskId]
          /\ last' = Reply("getTask", taskId, Undefined, taskId, entities[taskId].state,
                           IF validStates(taskId).defined THEN "ok" ELSE "exception", {})
  /\ UNCHANGED <<goalsFound, entities>>

GetBug(bugId) ==
  /\ FsmCall
  /\ IF bugId \in InheritedKeys
     THEN /\ location' = bugId
          /\ context' = [context EXCEPT !.currentBug = bugId]
          /\ last' = Reply("getBug", bugId, Undefined, Null, Null, "exception", {})
     ELSE IF bugId \notin BugIds
     THEN /\ last' = Reply("getBug", bugId, Undefined, Null, Null, "notFound", {})
          /\ UNCHANGED <<location, context>>
     ELSE /\ location' = bugId
          /\ context' = [context EXCEPT !.currentBug = bugId]
          /\ last' = Reply("getBug", bugId, Undefined, bugId, entities[bugId].state,
                           IF validStates(bugId).defined THEN "ok" ELSE "exception", {})
  /\ UNCHANGED <<goalsFound, entities>>

GetTaskState(taskId) ==
  /\ FsmCall
  /\ last' = IF taskId \notin TaskIds
             THEN Reply("getTaskState", taskId, Undefined, Null, Null, "notFound", {})
             ELSE Reply("getTaskState", taskId, Undefined, taskId, entities[taskId].state, "ok", {})
  /\ UNCHANGED <<location, context, goalsFound, entities>>

\* updateTaskState and updateBugState share their shape: `prefix` is the
\* location prefix the case requires and `ids` the table it looks the id up in.
UpdateState(tool, prefix, ids, id, newState) ==
  /\ FsmCall
  /\ IF ~StartsWith(location, prefix)
     THEN /\ last' = Reply(tool, id, newState, Null, Null, "wrongLocation", {})
          /\ UNCHANGED <<goalsFound, entities>>
     ELSE IF id \notin ids
     THEN /\ last' = Reply(tool, id, newState, Null, Null, "notFound", {})
          /\ UNCHANGED <<goalsFound, entities>>
     ELSE IF ~validStates(id).defined
     THEN \* task.validStates.includes on an absent field: TypeError
          /\ last' = Reply(tool, id, newState, id, entities[id].state, "exception", {})
          /\ UNCHANGED <<goalsFound, entities>>
     ELSE IF newState \notin validStates(id).items
     THEN /\ last' = Reply(tool, id, newState, id, entities[id].state, "invalidState", {})
          /\ UNCHANGED <<goalsFound, entities>>
     ELSE LET ents == [entities EXCEPT ![id].state = newState]
              achieved == FsmCheckGoalsAfterOperation(goalsFound, ents)
          IN  /\ entities' = ents
              /\ goalsFound' = goalsFound \o IdsInOrder(achieved, 1)
              /\ last' = Reply(tool, id, newState, id, entities[id].state, "ok",
                               {Goals[i].id : i \in achieved})
  /\ UNCHANGED <<location, context>>

UpdateTaskState(taskId, newState) == UpdateState("updateTaskState", "task-", TaskIds, taskId, newState)

UpdateBugState(bugId, newState) == UpdateState("updateBugState", "bug-", BugIds, bugId, newState)

\* assignTask and assignBug share their shape
Assign(tool, ids, id, userId) ==
  /\ FsmCall
  /\ IF id \notin ids
     THEN /\ last' = Reply(tool, id, userId, Null, Null, "notFound", {})
          /\ UNCHANGED entities
     ELSE /\ entities' = [entities EXCEPT ![id].assignee = userId]
          /\ last' = Reply(tool, id, userId, id, entities[id].state, "ok", {})
  /\ UNCHANGED <<location, context, goalsFound>>

AssignTask(taskId, userId) == Assign("assignTask", TaskIds, taskId, userId)

AssignBug(bugId, userId) == Assign("assignBug", BugIds, bugId, userId)

\* navigateToRoot clearing the context only
NavigateToRootKeepingCursor ==
  /\ FsmCall
  /\ context' = EmptyContext
  /\ last' = Reply("navigateToRoot", Undefined, Undefined, Null, Null, "ok", {})
  /\ UNCHANGED <<location, goalsFound, entities>>

NavigateToRoot ==
  /\ FsmCall
  /\ location' = "root"
  /\ context' = EmptyContext
  /\ last' = Reply("navigateToRoot", Undefined, Undefined, Null, Null, "ok", {})
  /\ UNCHANGED <<goalsFound, entities>>

\* a checkGoals or getMetrics that the tool-call counter does not count
FsmReadOnlyUncounted(response) ==
  /\ nav = "fsm"
  /\ last' = response
  /\ UNCHANGED <<nav, places, semanticHintsUsed, toolCallCount>>
  /\ UNCHANGED <<location, context, goalsFound, entities>>

\* checkGoals and getMetrics only read: `response` is the text they build
FsmReadOnly(response) ==
  /\ FsmCall
  /\ last' = response
  /\ UNCHANGED <<location, context, goalsFound, entities>>

\* the `completed` list of checkGoals: the goals whose entity is in the goal's
\* state at the time of the call
FsmCompleted(ents) ==
  {Goals[i].id : i \in {j \in 1..Len(Goals) :
                          /\ Goals[j].entity /= Undefined
                          /\ Goals[j].entity \in EntityIds
                          /\ ents[Goals[j].entity].state = Goals[j].state}}

FsmCheckGoals ==
  FsmReadOnly([Reply("checkGoals", Undefined, Undefined, Null, Null, "ok", {})
                 EXCEPT !.completed = FsmCompleted(entities)])

FsmGetMetrics ==
  FsmReadOnly([Reply("getMetrics", Undefined, Undefined, Null, Null, "ok", {})
                 EXCEPT !.efficiency = Efficiency(toolCallCount', goalsFound)])

\* default: Unknown tool
FsmUnknownTool(name) ==
  /\ FsmCall
  /\ last' = Reply(name, Undefined, Undefined, Null, Null, "unknownTool", {})
  /\ UNCHANGED <<location, context, goalsFound, entities>>

\* --------------------------------------------------- multi-entry navigator

\* checkGoalsAfterOperation without its goalsFound.includes(goal.id) test
PetriCheckGoalsIgnoringFound(found, pl) ==
  {i \in 1..Len(Goals) :
     IF Goals[i].entity /= Undefined
     THEN /\ Goals[i].entity \in EntityIds
          /\ pl[Goals[i].entity].state = Goals[i].state
     ELSE /\ Goals[i].action = "Move any Open task to In Progress"
          /\ \E e \in EntityIds : pl[e].state = "In Progress" /\ pl[e].justTransitioned}

\* checkGoalsAfterOperation of the multi-entry navigator: the goals (indexes
\* into Goals) not yet in `found` whose condition holds of the places `pl`
PetriCheckGoalsAfterOperation(found, pl) ==
  {i \in 1..Len(Goals) :
     /\ Goals[i].id \notin SeqToSet(found)
     /\ IF Goals[i].entity /= Undefined
        THEN /\ Goals[i].entity \in EntityIds
             /\ pl[Goals[i].entity].state = Goals[i].state
        ELSE /\ Goals[i].action = "Move any Open task to In Progress"
             /\ \E e \in EntityIds : pl[e].state = "In Progress" /\ pl[e].justTransitioned}

\* const { name, arguments: args } = request.params; petriState.toolCallCount++
PetriCall ==
  /\ nav = "petri"
  /\ toolCallCount' = toolCallCount + 1
  /\ UNCHANGED <<nav, location, context, entities>>

\* Object.values(tasks).find(t => t.name.toLowerCase().includes(identifier.toLowerCase())):
\* the first task, in the dataset's order, whose name includes the identifier;
\* Undefined when there is none
RECURSIVE FindByName(_, _)
FindByName(identifier, from) ==
  IF from > Len(TaskOrder) THEN Undefined
  ELSE IF Includes(ToLowerCase(CharsOf(TaskName(TaskOrder[from]))), ToLowerCase(CharsOf(identifier)))
       THEN TaskOrder[from]
       ELSE FindByName(identifier, from + 1)

\* the lookup of startWorkingOn: the task with that id, else the first task whose
\* name includes the identifier
FindTask(identifier) ==
  IF identifier \in TaskIds THEN identifier ELSE FindByName(identifier, 1)

\* the fixed forward map of completeTask: transitions[state] || 'Done'
CompletionTarget(state) ==
  CASE state = "In Progress" -> "Review"
  [] state = "Review" -> "Testing"
  [] state = "Testing" -> "Done"
  [] OTHER -> "Done"

\* the hints of a mutating case taken from the places as they were before the
\* case changed them
HintsOfStale(tool, target, pl) ==
  IF tool \in {"startWorkingOn", "completeTask"}
  THEN generateSemanticHints([type |-> "task", id |-> target, state |-> places[target].state])
  ELSE NoHints

\* the hints a mutating case lists: startWorkingOn and completeTask call
\* generateSemanticHints({...task, state: place.state, type: 'task'}) after
\* they have changed the place; updateEntity lists none
HintsOf(tool, target, pl) ==
  IF tool \in {"startWorkingOn", "completeTask"}
  THEN generateSemanticHints([type |-> "task", id |-> target, state |-> pl[target].state])
  ELSE NoHints

\* a mutation that stores the places and answers without evaluating the goals
AfterMutationWithoutGoals(tool, id, arg, target, pl) ==
  /\ places' = pl
  /\ goalsFound' = goalsFound
  /\ last' = Reply(tool, id, arg, target, places[target].state, "ok", {})

\* the places after `pl`, the goals announced and the response of a mutation
AfterMutation(tool, id, arg, target, pl) ==
  LET achieved == PetriCheckGoalsAfterOperation(goalsFound, pl)
  IN  /\ places' = pl
      /\ goalsFound' = goalsFound \o IdsInOrder(achieved, 1)
      /\ last' = [Reply(tool, id, arg, target, places[target].state, "ok",
                        {Goals[i].id : i \in achieved})
                    EXCEPT !.hints = HintsOf(tool, target, pl)]

\* an auto-assign without its !place.assignee test: the default user replaces
\* whoever is assigned
AutoAssignAlways(pl, e) == [pl EXCEPT ![e].assignee = "user-alice"]

\* if (!place.assignee) place.assignee = 'user-alice'
AutoAssign(pl, e) ==
  IF Falsy(pl[e].assignee) THEN [pl EXCEPT ![e].assignee = "user-alice"] ELSE pl

StartWorkingOn(identifier) ==
  /\ PetriCall
  /\ semanticHintsUsed' = semanticHintsUsed + 1
  /\ IF identifier \notin TaskIds /\ identifier = Undefined
     THEN \* args.identifier.toLowerCase() on a missing argument: TypeError
          /\ last' = Reply("startWorkingOn", identifier, Undefined, Null, Null, "exception", {})
          /\ UNCHANGED <<places, goalsFound>>
     ELSE IF FindTask(identifier) = Undefined
     THEN /\ last' = Reply("startWorkingOn", identifier, Undefined, Null, Null, "notFound", {})
          /\ UNCHANGED <<places, goalsFound>>
     ELSE LET t == FindTask(identifier)
              assigned == AutoAssign(places, t)
              started == IF assigned[t].state = "Open"
                         THEN [assigned EXCEPT ![t].state = "In Progress",
                                               ![t].justTransitioned = TRUE]
                         ELSE assigned
          IN  AfterMutation("startWorkingOn", identifier, Undefined, t, started)

CompleteTask(identifier) ==
  /\ PetriCall
  /\ semanticHintsUsed' = semanticHintsUsed + 1
  /\ IF identifier \notin TaskIds
     THEN /\ last' = Reply("completeTask", identifier, Undefined, Null, Null, "notFound", {})
          /\ UNCHANGED <<places, goalsFound>>
     ELSE AfterMutation("completeTask", identifier, Undefined, identifier,
                        [places EXCEPT ![identifier].state = CompletionTarget(places[identifier].state)])

\* the id, state and assignee a response shows of entity e
Shown(e, pl) == [id |-> e, state |-> pl[e].state, assignee |-> pl[e].assignee]

\* the Next Steps and Suggestions of workOnBug's response
WorkOnBugHints(b) ==
  [nextSteps |-> <<"Investigate the issue", "Implement a fix", "Mark as fixed when done">>,
   suggestions |-> << Suggest("fixBug", <<b>>),
                      Suggest("updateEntity", <<b, "Fixed">>),
                      Suggest("addComment", <<b, "Found root cause...">>) >>]

\* workOnBug does not evaluate the goals
WorkOnBug(identifier) ==
  /\ PetriCall
  /\ semanticHintsUsed' = semanticHintsUsed + 1
  /\ IF identifier \notin BugIds
     THEN /\ last' = Reply("workOnBug", identifier, Undefined, Null, Null, "notFound", {})
          /\ UNCHANGED places
     ELSE LET b == identifier
              assigned == AutoAssign(places, b)
              moved == IF assigned[b].state \in {"New", "Assigned"}
                       THEN [assigned EXCEPT ![b].state = "In Progress"]
                       ELSE assigned
          IN  /\ places' = moved
              /\ last' = [Reply("workOnBug", identifier, Undefined, b, places[b].state, "ok", {})
                            EXCEPT !.hints = WorkOnBugHints(b),
                                   !.reported = <<Shown(b, moved)>>]
  /\ UNCHANGED goalsFound

\* getEntity showing the state and assignee of the dataset's record
GetEntityFromDataset(entityId) ==
  /\ PetriCall
  /\ last' = IF entityId \notin EntityIds
             THEN Reply("getEntity", entityId, Undefined, Null, Null, "notFound", {})
             ELSE [Reply("getEntity", entityId, Undefined, entityId, places[entityId].state, "ok", {})
                     EXCEPT !.hints = generateSemanticHints(
                                        [type |-> IF entityId \in BugIds THEN "bug" ELSE "task",
                                         id |-> entityId, state |-> places[entityId].state]),
                            !.reported = <<Shown(entityId, entities)>>]
  /\ UNCHANGED <<places, goalsFound, semanticHintsUsed>>

GetEntity(entityId) ==
  /\ PetriCall
  /\ last' = IF entityId \notin EntityIds
             THEN Reply("getEntity", entityId, Undefined, Null, Null, "notFound", {})
             ELSE [Reply("getEntity", entityId, Undefined, entityId, places[entityId].state, "ok", {})
                     EXCEPT !.hints = generateSemanticHints(
                                        [type |-> IF entityId \in BugIds THEN "bug" ELSE "task",
                                         id |-> entityId, state |-> places[entityId].state]),
                            !.reported = <<Shown(entityId, places)>>]
  /\ UNCHANGED <<places, goalsFound, semanticHintsUsed>>

\* updateEntity writing the new state to every place of the entity's kind
UpdateEntityOfKind(entityId, newState) ==
  /\ PetriCall
  /\ IF entityId \notin DOMAIN places
     THEN /\ last' = Reply("updateEntity", entityId, newState, Null, Null, "notFound", {})
          /\ UNCHANGED <<places, goalsFound>>
     ELSE AfterMutation("updateEntity", entityId, newState, entityId,
                        [e \in EntityIds |->
                           IF (e \in BugIds) = (entityId \in BugIds)
                           THEN [places[e] EXCEPT !.state = newState]
                           ELSE places[e]])
  /\ UNCHANGED semanticHintsUsed

UpdateEntity(entityId, newState) ==
  /\ PetriCall
  /\ IF entityId \notin DOMAIN places
     THEN /\ last' = Reply("updateEntity", entityId, newState, Null, Null, "notFound", {})
          /\ UNCHANGED <<places, goalsFound>>
     ELSE AfterMutation("updateEntity", entityId, newState, entityId,
                        [places EXCEPT ![entityId].state = newState])
  /\ UNCHANGED semanticHintsUsed

\* checkWorkflow, checkGoals and getMetrics only read: `response` is the text
\* they build
PetriReadOnly(response) ==
  /\ PetriCall
  /\ last' = response
  /\ UNCHANGED <<places, goalsFound, semanticHintsUsed>>

\* Object.entries(petriState.places): tasks, then bugs, in the dataset's order
PlaceOrder == TaskOrder \o <<"bug-login", "bug-performance">>

\* the places from index `from` on whose state is neither Done nor Closed
RECURSIVE ActiveItems(_, _)
ActiveItems(pl, from) ==
  IF from > Len(PlaceOrder) THEN <<>>
  ELSE IF pl[PlaceOrder[from]].state \notin {"Done", "Closed"}
       THEN <<Shown(PlaceOrder[from], pl)>> \o ActiveItems(pl, from + 1)
       ELSE ActiveItems(pl, from + 1)

\* the line of Available Actions for one active item
AvailableAction(item) ==
  CASE item.state = "Open" -> Suggest("startWorkingOn", <<item.id>>)
  [] item.state = "In Progress" -> Suggest("completeTask", <<item.id>>)
  [] item.state = "Review" -> Suggest("updateEntity", <<item.id, "Testing">>)
  [] OTHER -> Suggest("getEntity", <<item.id>>)

\* activeItems.slice(0, 3).map(...)
AvailableActions(items) ==
  [i \in 1..(IF Len(items) < 3 THEN Len(items) ELSE 3) |-> AvailableAction(items[i])]

CheckWorkflow ==
  PetriReadOnly([Reply("checkWorkflow", Undefined, Undefined, Null, Null, "ok", {})
                   EXCEPT !.reported = ActiveItems(places, 1),
                          !.hints = [nextSteps |-> <<>>,
                                     suggestions |-> AvailableActions(ActiveItems(places, 1))]])

\* a 'Goals Achieved' line computed from the places: the goals whose entity is
\* in the goal's state at the time of the call
PetriCompletedByState(found, pl) ==
  {Goals[i].id : i \in {j \in 1..Len(Goals) :
                          /\ Goals[j].entity /= Undefined
                          /\ Goals[j].entity \in EntityIds
                          /\ pl[Goals[j].entity].state = Goals[j].state}}

\* the 'Goals Achieved' line of checkGoals: petriState.goalsFound
PetriCompleted(found, pl) == SeqToSet(found)

PetriCheckGoals ==
  PetriReadOnly([Reply("checkGoals", Undefined, Undefined, Null, Null, "ok", {})
                   EXCEPT !.completed = PetriCompleted(goalsFound, places)])

PetriGetMetrics ==
  PetriReadOnly([Reply("getMetrics", Undefined, Undefined, Null, Null, "ok", {})
                   EXCEPT !.efficiency = Efficiency(toolCallCount', goalsFound)])

\* default: Unknown tool, whatever identifier the call names
PetriUnknownTool(name, identifier) ==
  /\ PetriCall
  /\ last' = Reply(name, identifier, Undefined, Null, Null, "unknownTool", {})
  /\ UNCHANGED <<places, goalsFound, semanticHintsUsed>>

\* ------------------------------------------------------------- sessions

\* the response's "GOALS ACHIEVED" line, counted per goal
Announce ==
  announced' = [g \in GoalIds |-> announced[g] + (IF g \in last'.achieved THEN 1 ELSE 0)]

\* what a checkGoals call lists as completed in the current state
Listed ==
  IF nav = "fsm" THEN FsmCompleted(entities) ELSE PetriCompleted(goalsFound, places)

\* every goal a checkGoals call after this one lists, remembered
Listing == listed' = listed \cup Listed'

\* a call of a session with free arguments
Free(call) ==
  /\ toolCallCount < MaxCalls
  /\ call
  /\ Announce
  /\ Listing
  /\ UNCHANGED path
  /\ UNCHANGED harness

Next ==
  \/ Free(ListProjects)
  \/ \E p \in ProjectArgs \cup InheritedKeys : Free(GetProject(p))
  \/ \E p \in ProjectArgs : Free(ListTasks(p))
  \/ \E p \in ProjectArgs : Free(ListBugs(p))
  \/ \E t \in TaskArgs \cup InheritedKeys : Free(GetTask(t))
  \/ \E b \in BugArgs \cup InheritedKeys : Free(GetBug(b))
  \/ \E t \in TaskArgs : Free(GetTaskState(t))
  \/ \E t \in TaskArgs, s \in NewStateArgs : Free(UpdateTaskState(t, s))
  \/ \E b \in BugArgs, s \in NewStateArgs : Free(UpdateBugState(b, s))
  \/ \E t \in TaskArgs, u \in UserArgs : Free(AssignTask(t, u))
  \/ \E b \in BugArgs, u \in UserArgs : Free(AssignBug(b, u))
  \/ Free(NavigateToRoot)
  \/ Free(FsmCheckGoals)
  \/ Free(FsmGetMetrics)
  \/ \E n \in UnhandledTools : Free(FsmUnknownTool(n))
  \/ \E i \in IdentifierArgs : Free(StartWorkingOn(i))
  \/ \E i \in CompleteArgs : Free(CompleteTask(i))
  \/ \E i \in WorkArgs : Free(WorkOnBug(i))
  \/ Free(CheckWorkflow)
  \/ \E e \in EntityArgs : Free(GetEntity(e))
  \/ \E e \in EntityArgs, s \in NewStateArgs : Free(UpdateEntity(e, s))
  \/ Free(PetriCheckGoals)
  \/ Free(PetriGetMetrics)
  \/ \E n \in UnhandledTools, i \in MissingIds : Free(PetriUnknownTool(n, i))

Spec == Init /\ [][Next]_vars

\* The calls the documented scenarios make: the hierarchical flow to a task and
\* its start, the semantic start and completion of a task, and the semantic
\* steps that fix a bug.
FlowTasks == {"task-auth", "task-ui"}

\* a call of a scenario session: the session's calls are recorded in path
Flow(call) ==
  /\ toolCallCount < MaxFlowCalls
  /\ call
  /\ Announce
  /\ Listing
  /\ path' = Append(path, [tool |-> last'.tool, id |-> last'.id, arg |-> last'.arg])
  /\ UNCHANGED harness

FlowNext ==
  \/ Flow(ListProjects)
  \/ Flow(GetProject("project-web"))
  \/ Flow(ListTasks("project-web"))
  \/ \E t \in FlowTasks : Flow(GetTask(t))
  \/ \E t \in FlowTasks : Flow(AssignTask(t, "user-alice"))
  \/ \E t \in FlowTasks : Flow(UpdateTaskState(t, "In Progress"))
  \/ \E t \in FlowTasks : Flow(StartWorkingOn(t))
  \/ \E t \in FlowTasks : Flow(CompleteTask(t))
  \/ Flow(WorkOnBug("bug-login"))
  \/ \E n \in {"fixBug", "verifyBug"} : Flow(PetriUnknownTool(n, "bug-login"))

SpecFlow == Init /\ [][FlowNext]_vars

\* ------------------------------------------------------------ test harness

\* all_tests: one test of each kind enumerate_all_tests appends, in its order
AllTests == <<"SingleTransition", "CompletionTest", "DirectAccessTest", "ReassignmentTest">>

\* the states of the generator
RngStates == 0..15

\* random.seed(seed): the generator's state is a function of the seed alone
Seeded(seed) == seed % 16

\* one draw: the generator's next state
Step(x) == (5 * x + 3) % 16

\* random.sample(pool, k) from generator state x: k times, draw an index into
\* the pool, take that element and fill its slot with the pool's last one
\* (selection without replacement); also the state the generator is left in
RECURSIVE Sample(_, _, _)
Sample(pool, k, x) ==
  IF k = 0 \/ Len(pool) = 0 THEN [picked |-> <<>>, rng |-> x]
  ELSE LET x1 == Step(x)
           j == (x1 % Len(pool)) + 1
           rest == [i \in 1..(Len(pool) - 1) |-> IF i = j THEN pool[Len(pool)] ELSE pool[i]]
           more == Sample(rest, k - 1, x1)
       IN  [picked |-> <<pool[j]>> \o more.picked, rng |-> more.rng]

\* select_tests without its random.seed(seed) line: sampling goes on from the
\* state x the generator is in
SelectTestsUnseeded(all_tests, num_tests, seed, x) == Sample(all_tests, num_tests, x)

\* select_tests(all_tests, num_tests, seed), called with the generator in state x
SelectTests(all_tests, num_tests, seed, x) == Sample(all_tests, num_tests, Seeded(seed))

\* the harness calls select_tests(all_tests, num_tests, seed)
Select(num_tests, seed) ==
  LET r == SelectTests(AllTests, num_tests, seed, rng)
  IN  /\ rng' = r.rng
      /\ selection' = [num_tests |-> num_tests, seed |-> seed, tests |-> r.picked,
                        again |-> selected[<<num_tests, seed>>] /= {},
                        moved |-> rng /= Seeded(seed)]
      /\ selected' = [selected EXCEPT ![<<num_tests, seed>>] = @ \cup {r.picked}]
      /\ UNCHANGED server

\* any other use of the module-level generator between two selections
OtherDraw ==
  /\ rng' = Step(rng)
  /\ UNCHANGED <<selection, selected>>
  /\ UNCHANGED server

\* the harness process starts with its generator seeded from the system
InitSample ==
  /\ rng \in RngStates
  /\ selection = NoSelection
  /\ selected = [a \in SelectArgs |-> {}]
  /\ nav = "fsm"
  /\ location = "root"
  /\ context = EmptyContext
  /\ toolCallCount = 0
  /\ goalsFound = <<>>
  /\ entities = [e \in EntityIds |-> [state |-> InitState(e), assignee |-> InitAssignee(e)]]
  /\ places = [e \in EntityIds |->
                 [state |-> InitState(e), assignee |-> InitAssignee(e), justTransitioned |-> FALSE]]
  /\ semanticHintsUsed = 0
  /\ last = NoCall
  /\ announced = [g \in GoalIds |-> 0]
  /\ listed = {}
  /\ path = <<>>

SampleNext ==
  \/ \E a \in SelectArgs : Select(a[1], a[2])
  \/ OtherDraw

SpecSample == InitSample /\ [][SampleNext]_vars


\* ------------------------------------------------------------------ claims

\* the entity's current state, in the store the running navigator mutates
StateOf(e) == IF nav = "fsm" THEN entities[e].state ELSE places[e].state

\* `to` is a legal successor of `from` in e's validTransitions
IsLegal(e, from, to) ==
  /\ from \in DOMAIN validTransitions(e)
  /\ to \in validTransitions(e)[from]

\* e's validTransitions maps `state` to the empty set
IsTerminal(e, state) ==
  /\ state \in DOMAIN validTransitions(e)
  /\ validTransitions(e)[state] = {}

UpdateTools == {"updateTaskState", "updateBugState"}

\* C1: an updateTaskState/updateBugState call issued at the entity's own
\* location sets the entity's state to the requested state if and only if that
\* state is a legal successor of the current one; otherwise the call is
\* rejected as an invalid transition and the state is unchanged.
C1_TransitionLegality ==
  (last.tool \in UpdateTools /\ last.id \in EntityIds /\ last.loc = last.id) =>
    IF IsLegal(last.id, last.pre, last.arg)
    THEN last.result = "ok" /\ entities[last.id].state = last.arg
    ELSE last.result = "invalidState" /\ entities[last.id].state = last.pre

\* C2: updateEntity sets the entity's state only when the requested state is a
\* legal successor of the current one; otherwise it rejects the call and
\* leaves the state unchanged.
C2_UpdateEntityLegality ==
  (last.tool = "updateEntity" /\ last.id \in EntityIds) =>
    IF IsLegal(last.id, last.pre, last.arg)
    THEN last.result = "ok" /\ places[last.id].state = last.arg
    ELSE last.result = "invalidState" /\ places[last.id].state = last.pre

\* C3: updateTaskState/updateBugState succeed only with the cursor at the
\* entity being updated; from any other location the call returns the
\* wrong-location error and changes no entity, cursor, context or found goal.
C3_LocationGating ==
  [][(toolCallCount' = toolCallCount + 1 /\ last'.tool \in UpdateTools /\ last'.id \in EntityIds) =>
       /\ last'.result = "ok" => location = last'.id
       /\ location /= last'.id =>
            /\ last'.result = "wrongLocation"
            /\ UNCHANGED <<entities, location, context, goalsFound>>]_vars

\* C4: assignTask/assignBug change an assignee only with the cursor at the
\* target entity; from any other location the call is rejected with the
\* wrong-location error and the assignee is unchanged.
C4_AssignGating ==
  [][(toolCallCount' = toolCallCount + 1 /\ last'.tool \in {"assignTask", "assignBug"}
        /\ last'.id \in EntityIds /\ location /= last'.id) =>
       /\ last'.result = "wrongLocation"
       /\ UNCHANGED entities]_vars

\* the documented four calls that start task t from a fresh session
FourCalls(t, s) ==
  << [tool |-> "listProjects", id |-> Undefined, arg |-> Undefined],
     [tool |-> "getProject", id |-> "project-web", arg |-> Undefined],
     [tool |-> "getTask", id |-> t, arg |-> Undefined],
     [tool |-> "updateTaskState", id |-> t, arg |-> s] >>

\* C5: on a fresh hierarchical navigator no sequence of fewer than 4 calls
\* changes the state of a task, and listProjects, getProject, getTask,
\* updateTaskState changes it (to a legal successor) in exactly 4.
C5_FourCallMutation ==
  nav = "fsm" =>
    /\ toolCallCount < 4 => \A t \in TaskIds : entities[t].state = InitState(t)
    /\ \A t \in TaskIds, s \in NewStateArgs :
         (path = FourCalls(t, s) /\ IsLegal(t, InitState(t), s)) => entities[t].state = s

\* C6: once a task or bug is in a state with no legal successor, no call
\* changes its state again, and a direct state update on it is rejected as an
\* invalid transition.
C6_TerminalImmutability ==
  [][\A e \in EntityIds :
       IsTerminal(e, StateOf(e)) =>
         /\ StateOf(e)' = StateOf(e)
         /\ (toolCallCount' = toolCallCount + 1 /\ last'.tool = "updateEntity" /\ last'.id = e)
              => last'.result = "invalidState"]_vars

\* C7: within one session each goal is announced as achieved by at most one
\* call, even when its entity leaves the goal state and returns to it.
C7_GoalAnnouncedOnce == \A g \in GoalIds : announced[g] <= 1

\* C7 witness: a call has just put an entity back into the state of a goal
\* that an earlier call announced, and does not announce it again.
C7_Witness ==
  \E i \in 1..Len(Goals) :
    /\ last.tool = "updateEntity"
    /\ last.result = "ok"
    /\ last.id = Goals[i].entity
    /\ last.arg = Goals[i].state
    /\ last.pre /= Goals[i].state
    /\ places[last.id].state = Goals[i].state
    /\ announced[Goals[i].id] = 1
    /\ Goals[i].id \notin last.achieved

\* C8: completeTask moves the task to exactly one state that is a direct legal
\* successor of its current state in the task's own validTransitions.
C8_CompleteTaskOneLegalStep ==
  (last.tool = "completeTask" /\ last.result = "ok") =>
    IsLegal(last.target, last.pre, places[last.target].state)

\* C9: startWorkingOn moves a task to In Progress only if the task is Open and
\* In Progress is a legal successor of Open for that task; in every other case
\* the task's state is unchanged.
C9_StartOnlyLegal ==
  (last.tool = "startWorkingOn" /\ last.result = "ok") =>
    IF last.pre = "Open" /\ IsLegal(last.target, "Open", "In Progress")
    THEN places[last.target].state = "In Progress"
    ELSE places[last.target].state = last.pre

\* C10: every tool call, for any tool name and arguments, completes with a
\* structured text result; no call raises an exception out of the handler.
C10_NoException == last.result /= "exception"

\* the catalog the running navigator advertises
AdvertisedTools == IF nav = "fsm" THEN FsmTools ELSE PetriTools

\* C11: every tool a navigator advertises in its tools/list catalog is
\* dispatched to a handler: calling it never yields the 'Unknown tool' result.
C11_AdvertisedDispatched ==
  last.tool \in AdvertisedTools => last.result /= "unknownTool"

\* the store holds the dataset with task-auth started by user-alice and
\* nothing else changed
OnlyAuthStarted(store) ==
  /\ store["task-auth"].state = "In Progress"
  /\ store["task-auth"].assignee = "user-alice"
  /\ \A e \in EntityIds \ {"task-auth"} :
       store[e].state = InitState(e) /\ store[e].assignee = InitAssignee(e)

Called(tool, id, arg) == [tool |-> tool, id |-> id, arg |-> arg]

\* the hierarchical flow of the scenario 'Developer starts new task'
HierarchicalStart ==
  << Called("listProjects", Undefined, Undefined),
     Called("getProject", "project-web", Undefined),
     Called("listTasks", "project-web", Undefined),
     Called("getTask", "task-auth", Undefined),
     Called("assignTask", "task-auth", "user-alice"),
     Called("updateTaskState", "task-auth", "In Progress") >>

\* C12: from the initial dataset the six-call hierarchical flow and the single
\* call startWorkingOn('task-auth') end in the same result: task-auth is In
\* Progress and assigned to user-alice, every other entity unchanged.
C12_FlowsAgree ==
  /\ (nav = "fsm" /\ path = HierarchicalStart) => OnlyAuthStarted(entities)
  /\ (nav = "petri" /\ path = <<Called("startWorkingOn", "task-auth", Undefined)>>)
       => OnlyAuthStarted(places)

\* C13: from the initial dataset startWorkingOn('task-auth') followed by
\* completeTask('task-auth') leaves task-auth in Done and reports the goal
\* 'Ship Authentication Feature' (goal-ship-feature).
C13_StartThenCompleteShips ==
  (nav = "petri" /\ path = << Called("startWorkingOn", "task-auth", Undefined),
                              Called("completeTask", "task-auth", Undefined) >>)
    => /\ places["task-auth"].state = "Done"
       /\ announced["goal-ship-feature"] >= 1
       /\ "goal-ship-feature" \in SeqToSet(goalsFound)

\* C14: from the initial dataset workOnBug('bug-login'), fixBug('bug-login'),
\* verifyBug('bug-login') leaves bug-login in Verified and reports the goal
\* goal-fix-critical-bug.
C14_BugScenarioVerifies ==
  (/\ nav = "petri"
   /\ Len(path) = 3
   /\ path[1] = Called("workOnBug", "bug-login", Undefined)
   /\ path[2] = Called("fixBug", "bug-login", Undefined)
   /\ path[3] = Called("verifyBug", "bug-login", Undefined))
    => /\ places["bug-login"].state = "Verified"
       /\ announced["goal-fix-critical-bug"] >= 1
       /\ "goal-fix-critical-bug" \in SeqToSet(goalsFound)

\* the lowercased name of task t and the lowercased identifier
LowerName(t) == ToLowerCase(CharsOf(TaskName(t)))

LowerId(identifier) == ToLowerCase(CharsOf(identifier))

\* the tasks whose name contains the identifier, case-insensitively
SubstringMatches(identifier) ==
  {t \in TaskIds : Includes(LowerName(t), LowerId(identifier))}

\* the position of the earliest occurrence of the identifier in t's name
MatchIndex(t, identifier) ==
  CHOOSE i \in 0..Len(LowerName(t)) :
    /\ SubSeq(LowerName(t), i + 1, i + Len(LowerId(identifier))) = LowerId(identifier)
    /\ \A j \in 0..(i - 1) :
         SubSeq(LowerName(t), j + 1, j + Len(LowerId(identifier))) /= LowerId(identifier)

\* the tools that take an identifier of a task
ResolvingTools == {"startWorkingOn", "completeTask"}

\* C15: an identifier that is no exact id and matches several task names as a
\* case-insensitive substring is resolved by startWorkingOn to the task whose
\* name contains the match at the earliest position.
C15_EarliestMatchWins ==
  (/\ last.tool = "startWorkingOn"
   /\ last.id \notin TaskIds \cup {Undefined}
   /\ Cardinality(SubstringMatches(last.id)) > 1)
    => /\ last.target \in SubstringMatches(last.id)
       /\ \A t \in SubstringMatches(last.id) :
            MatchIndex(last.target, last.id) <= MatchIndex(t, last.id)

\* the tasks an identifier names: the task with that id, else the tasks with
\* exactly that name, else the tasks whose name contains it
Resolution(identifier) ==
  IF identifier \in TaskIds THEN {identifier}
  ELSE IF \E t \in TaskIds : TaskName(t) = identifier
       THEN {t \in TaskIds : TaskName(t) = identifier}
       ELSE SubstringMatches(identifier)

\* C16: identifier resolution tries exact id, then exact name, then substring:
\* an id resolves to its entity, a full name resolves to the entity of that
\* name, and an identifier matching nothing returns a not-found result.
C16_ResolutionOrder ==
  (last.tool \in ResolvingTools /\ last.id /= Undefined) =>
    IF Resolution(last.id) = {}
    THEN last.result = "notFound"
    ELSE last.result /= "notFound" /\ last.target \in Resolution(last.id)

\* the state the goal's entity has to be in, and is not in now
LeftGoalState(g) ==
  \E i \in 1..Len(Goals) :
    /\ Goals[i].id = g
    /\ Goals[i].entity \in EntityIds
    /\ StateOf(Goals[i].entity) /= Goals[i].state

\* C17: the goals checkGoals reports as completed only grow along a call
\* sequence: a goal it listed after some call it lists after every later
\* call, whatever state the goal's entity is in by then.
C17_CompletedOnlyGrows == listed \subseteq Listed

\* C17 witness: a checkGoals call lists a goal whose entity has left the
\* goal's state since.
C17_Witness ==
  /\ last.tool = "checkGoals"
  /\ \E g \in last.completed : g \in listed /\ LeftGoalState(g)

C19_CallsPerGoalOverMax1 ==
  last.tool = "getMetrics" =>
    /\ last.efficiency.defined
    /\ IF Len(goalsFound) = 0
       THEN last.efficiency.tenths = 10 * toolCallCount
       ELSE 2 * (last.efficiency.tenths * Len(goalsFound) - 10 * toolCallCount) <= Len(goalsFound)
            /\ 2 * (10 * toolCallCount - last.efficiency.tenths * Len(goalsFound)) <= Len(goalsFound)

\* C19 amended: getMetrics reports 'No goals yet' (no number) while no goal is
\* found, and otherwise total tool calls divided by goals found, to the
\* nearest tenth.
C19_CallsPerGoalOrNone ==
  last.tool = "getMetrics" =>
    IF Len(goalsFound) = 0
    THEN ~last.efficiency.defined
    ELSE /\ last.efficiency.defined
         /\ 2 * (last.efficiency.tenths * Len(goalsFound) - 10 * toolCallCount) <= Len(goalsFound)
         /\ 2 * (10 * toolCallCount - last.efficiency.tenths * Len(goalsFound)) <= Len(goalsFound)

\* C19 witness: getMetrics as the third call, after two goals: 1.5 calls per goal
C19_Witness ==
  /\ last.tool = "getMetrics"
  /\ toolCallCount = 3
  /\ Len(goalsFound) = 2
  /\ last.efficiency = [defined |-> TRUE, tenths |-> 15]

\* C20: after any sequence of calls every task's and bug's current state is
\* one of the keys of the entity's own validTransitions.
C20_StateInOwnGraph ==
  \A e \in EntityIds : StateOf(e) \in DOMAIN validTransitions(e)

\* C21: completeTask on a task whose current state is absent from the task's
\* validTransitions, or has no forward edge there, reports an error and leaves
\* the state unchanged; it never substitutes a default target state.
C21_CompleteTaskNoDefault ==
  (/\ last.tool = "completeTask"
   /\ last.target \in TaskIds
   /\ \/ last.pre \notin DOMAIN validTransitions(last.target)
      \/ IsTerminal(last.target, last.pre))
    => /\ last.result /= "ok"
       /\ places[last.target].state = last.pre

\* the entity's current assignee, in the store the running navigator mutates
AssigneeOf(e) == IF nav = "fsm" THEN entities[e].assignee ELSE places[e].assignee

AssignTools == {"assignTask", "assignBug"}

\* C22: each task's and bug's assignee is either empty or the id of a user of
\* the dataset; an assign call naming a user that is not in the dataset is
\* rejected as not found.
C22_AssigneeIsUser ==
  /\ \A e \in EntityIds : AssigneeOf(e) \in UserIds \cup {Null}
  /\ (last.tool \in AssignTools /\ last.arg \notin UserIds) => last.result = "notFound"

\* the project whose tasks / bugs list names the entity
ProjectOf(e) == CHOOSE p \in ProjectIds : TRUE

\* C23: the hierarchical cursor descends one level at a time: getProject
\* succeeds only with the cursor at the projects level, getTask/getBug succeed
\* only with the cursor inside the project that owns the entity, and issued
\* from root none of the three moves the cursor.
C23_CursorDescends ==
  /\ (last.tool = "getProject" /\ last.result = "ok") => last.loc = "projects"
  /\ (last.tool \in {"getTask", "getBug"} /\ last.result = "ok" /\ last.id \in EntityIds)
       => last.loc \in {ProjectOf(last.id)} \cup EntityIds
  /\ (last.tool \in {"getProject", "getTask", "getBug"} /\ last.loc = "root")
       => location = "root"

\* a tool call has just been handled
Handled == toolCallCount' = toolCallCount + 1

\* the hierarchical calls that navigate or report
FsmReadTools ==
  {"listProjects", "getProject", "listTasks", "listBugs", "getTask", "getBug",
   "getTaskState", "navigateToRoot", "checkGoals", "getMetrics"}

\* C24: the hierarchical calls listProjects, getProject, listTasks, listBugs,
\* getTask, getBug, getTaskState, navigateToRoot, checkGoals and getMetrics
\* never change an entity's state or assignee nor the goals found.
C24_ReadCallsFrame ==
  [][(Handled /\ nav = "fsm" /\ last'.tool \in FsmReadTools)
       => UNCHANGED <<entities, goalsFound>>]_vars

\* C24 witness: a navigating call has moved the cursor in a session whose
\* entity data differs from the dataset's.
C24_Witness ==
  /\ nav = "fsm"
  /\ last.tool \in {"getTask", "getBug"}
  /\ last.loc /= location
  /\ \E e \in EntityIds : entities[e].assignee /= InitAssignee(e)

\* C25: a call naming a project, task, bug or entity id that is not
\* in the dataset returns a not-found result and leaves the cursor, the
\* context, every entity and the goals found as they were.
C25_MissingIdNotFound ==
  [][(Handled /\ last'.id \in MissingIds)
       => /\ last'.result = "notFound"
          /\ UNCHANGED <<location, context, entities, places, goalsFound>>]_vars

\* C26: navigateToRoot is accepted in every hierarchical session state and
\* leaves the cursor at root with an empty context; from then on
\* updateTaskState and updateBugState are rejected until a call navigates to
\* an entity again.
C26_RootResets ==
  nav = "fsm" =>
    /\ last.tool = "navigateToRoot"
         => last.result = "ok" /\ location = "root" /\ context = EmptyContext
    /\ (last.tool \in UpdateTools /\ last.loc \notin EntityIds)
         => last.result = "wrongLocation"
    /\ (location \in EntityIds /\ last.loc /= location)
         => last.tool \in {"getTask", "getBug"}

\* C26 witness: navigateToRoot has been called with the cursor at an entity
\* and has put it back at root.
C26_Witness ==
  /\ last.tool = "navigateToRoot"
  /\ last.loc \in EntityIds
  /\ location = "root"
  /\ context = EmptyContext

\* C27: startWorkingOn and workOnBug assign the default user only to an entity
\* that has no assignee; an entity that has one keeps it, whatever its state,
\* and no other entity's assignee changes.
C27_AutoAssignOnlyUnassigned ==
  [][(Handled /\ last'.tool \in {"startWorkingOn", "workOnBug"} /\ last'.result = "ok")
       => /\ places'[last'.target].assignee =
               IF places[last'.target].assignee = Null
               THEN "user-alice"
               ELSE places[last'.target].assignee
          /\ \A e \in EntityIds \ {last'.target} :
               places'[e].assignee = places[e].assignee]_vars

\* C27 witness: startWorkingOn on a task in Review that user-bob holds leaves
\* it with user-bob, in a session where workOnBug gave a bug nobody held to
\* the default user.
C27_Witness ==
  /\ last.tool = "startWorkingOn"
  /\ last.result = "ok"
  /\ last.target = "task-api"
  /\ last.pre = "Review"
  /\ places["task-api"].assignee = "user-bob"
  /\ places["bug-login"].assignee = "user-alice"

\* the call just answered moved a task from Open to In Progress
MovedOpenToInProgress ==
  /\ last.result = "ok"
  /\ last.target \in TaskIds
  /\ last.pre = "Open"
  /\ StateOf(last.target) = "In Progress"

\* goal i holds through what the call just answered did: it put the goal's
\* entity into the goal's state, or (the action goal) moved a task from Open
\* to In Progress
BroughtAbout(i) ==
  IF Goals[i].entity /= Undefined
  THEN /\ last.target = Goals[i].entity
       /\ last.pre /= Goals[i].state
       /\ StateOf(last.target) = Goals[i].state
  ELSE MovedOpenToInProgress

\* C28: after a successful call, every entity-state goal whose entity is in
\* the goal's state is in goalsFound; a goal a call announces is one that call
\* brought about, and checkGoals lists no goal that goalsFound lacks.
C28_GoalRecordedBySameCall ==
  /\ (last.tool /= "none" /\ last.result = "ok")
       => \A i \in 1..Len(Goals) :
            (Goals[i].entity \in EntityIds /\ StateOf(Goals[i].entity) = Goals[i].state)
              => Goals[i].id \in SeqToSet(goalsFound)
  /\ \A i \in 1..Len(Goals) : Goals[i].id \in last.achieved => BroughtAbout(i)
  /\ last.completed \subseteq SeqToSet(goalsFound)

\* C28 witness: completeTask moved task-api from Review to Testing and the
\* same call announced goal-complete-review.
C28_Witness ==
  /\ last.tool = "completeTask"
  /\ last.target = "task-api"
  /\ last.pre = "Review"
  /\ places["task-api"].state = "Testing"
  /\ "goal-complete-review" \in last.achieved

\* C29: a call that moves a task from Open to In Progress, whichever tool it
\* is, leaves goal-quick-task-start in goalsFound, and the goal is announced
\* only by a call that made such a move.
C29_QuickStartAtFirstMove ==
  /\ MovedOpenToInProgress => "goal-quick-task-start" \in SeqToSet(goalsFound)
  /\ "goal-quick-task-start" \in last.achieved => MovedOpenToInProgress

\* C30: goal-quick-task-start is announced only by a call made while fewer
\* than 3 tool calls have been made in the session.
C30_QuickStartWithinBudget ==
  "goal-quick-task-start" \in last.achieved => toolCallCount < 3

\* C31: goal-ready-to-deploy ('Ready for Deployment') is announced only when
\* task-deploy is in Ready and every task of task-deploy's dependsOn is in Done.
C31_ReadyNeedsPrerequisites ==
  "goal-ready-to-deploy" \in last.achieved
    => /\ StateOf("task-deploy") = "Ready"
       /\ \A d \in dependsOn("task-deploy") : StateOf(d) = "Done"

\* entity.severity ? 'bug' : 'task'
KindOf(e) == IF e \in BugIds THEN "bug" ELSE "task"

HintingTools == {"startWorkingOn", "completeTask", "getEntity"}

\* C32: the hints a successful startWorkingOn, completeTask or getEntity
\* returns are those of the entity's kind, id and state as the call leaves
\* it, whatever the session did before: calls that end with the same entity
\* in the same state return the same hints.
C32_HintsOfStateAfter ==
  (nav = "petri" /\ last.tool \in HintingTools /\ last.result = "ok")
    => last.hints = generateSemanticHints([type |-> KindOf(last.target),
                                           id |-> last.target,
                                           state |-> places[last.target].state])

\* C32 witness: the third call of a session, a startWorkingOn that moved a
\* task from Open to In Progress, lists the hints of In Progress.
C32_Witness ==
  /\ last.tool = "startWorkingOn"
  /\ last.result = "ok"
  /\ last.pre = "Open"
  /\ places[last.target].state = "In Progress"
  /\ toolCallCount = 3
  /\ last.hints.suggestions[1] = Suggest("completeTask", <<last.target>>)

\* the states a Next Steps line proposes to move to
StatesNamed(step) ==
  CASE step = "Move to Review when complete" -> {"Review"}
  [] step = "Move to Testing or back to In Progress" -> {"Testing", "In Progress"}
  [] OTHER -> {}

\* the suggestions of `hints` that propose a state for an entity
StateSuggestions(hints) ==
  {hints.suggestions[i] : i \in {j \in 1..Len(hints.suggestions) :
                                   /\ hints.suggestions[j].tool \in {"updateTaskState", "updateEntity"}
                                   /\ Len(hints.suggestions[j].args) = 2}}

\* C33: every state the hints of a response propose for an entity, in a Next
\* Steps line about the entity the call resolved to or in a suggested update,
\* is a legal successor of that entity's current state in the entity's own
\* validTransitions.
C33_HintsProposeLegalTargets ==
  (nav = "petri" /\ last.result = "ok")
    => /\ \A i \in 1..Len(last.hints.nextSteps) :
            \A st \in StatesNamed(last.hints.nextSteps[i]) :
              IsLegal(last.target, places[last.target].state, st)
       /\ \A sg \in StateSuggestions(last.hints) :
            IsLegal(sg.args[1], places[sg.args[1]].state, sg.args[2])

\* C37: every suggestion a response lists names a tool the multi-entry
\* navigator's switch has a case for.
C37_SuggestionsAreHandled ==
  nav = "petri"
    => \A i \in 1..Len(last.hints.suggestions) :
         last.hints.suggestions[i].tool \in PetriCases

\* C34: every tool call, whatever its outcome, raises the tool-call counter by
\* exactly one; the semantic-call counter rises by at most one and never
\* exceeds the tool-call counter.
C34_CounterCountsEveryCall ==
  [][/\ toolCallCount' = toolCallCount + 1
     /\ semanticHintsUsed' \in {semanticHintsUsed, semanticHintsUsed + 1}
     /\ semanticHintsUsed' <= toolCallCount']_vars

\* C34 witness: navigateToRoot, made from below root as the third call of a
\* hierarchical session, leaves the counter at 3.
C34_Witness ==
  /\ nav = "fsm"
  /\ last.tool = "navigateToRoot"
  /\ last.loc /= "root"
  /\ toolCallCount = 3

\* C35: the hierarchical cursor is root, projects or the id of a project,
\* task or bug of the dataset, and each context field that is set names an
\* entity of its kind.
C35_CursorNamesEntity ==
  nav = "fsm"
    => /\ location \in {"root", "projects"} \cup ProjectIds \cup TaskIds \cup BugIds
       /\ context.currentProject \in ProjectIds \cup {Undefined}
       /\ context.currentTask \in TaskIds \cup {Undefined}
       /\ context.currentBug \in BugIds \cup {Undefined}

\* C36: a call changes the state and the assignee of no task or bug other
\* than the one it resolved to; a call that resolved to none changes none.
C36_OtherEntitiesUntouched ==
  [][\A e \in EntityIds :
       e /= last'.target
         => /\ entities'[e] = entities[e]
            /\ places'[e].state = places[e].state
            /\ places'[e].assignee = places[e].assignee]_vars

\* C36 witness: updateEntity has just changed bug-login in a session that had
\* started task-auth, and task-auth is still In Progress with user-alice.
C36_Witness ==
  /\ last.tool = "updateEntity"
  /\ last.target = "bug-login"
  /\ last.pre /= places["bug-login"].state
  /\ places["task-auth"].state = "In Progress"
  /\ places["task-auth"].assignee = "user-alice"

\* the entity records of the dataset as loaded
Loaded == [e \in EntityIds |-> [state |-> InitState(e), assignee |-> InitAssignee(e)]]

\* C38 as claimed: on the multi-entry navigator the dataset's entity records
\* stay as loaded, getEntity shows the state and assignee its entity has in
\* the places table, and checkWorkflow shows them for every entity.
C38_ReportsEveryEntity ==
  nav = "petri"
    => /\ entities = Loaded
       /\ (last.tool = "getEntity" /\ last.result = "ok")
            => last.reported = <<Shown(last.target, places)>>
       /\ last.tool = "checkWorkflow"
            => \A e \in EntityIds : Shown(e, places) \in SeqToSet(last.reported)

\* C38 amended: the dataset's entity records stay as loaded, getEntity shows
\* the state and assignee its entity has in the places table, and
\* checkWorkflow shows exactly the entities whose state is neither Done nor
\* Closed, each with the state and assignee it has in the places table.
C38_ReportsFromPlaces ==
  nav = "petri"
    => /\ entities = Loaded
       /\ (last.tool = "getEntity" /\ last.result = "ok")
            => last.reported = <<Shown(last.target, places)>>
       /\ last.tool = "checkWorkflow"
            => SeqToSet(last.reported) =
                 {Shown(e, places) : e \in {x \in EntityIds : places[x].state \notin {"Done", "Closed"}}}

\* C38 witness: checkWorkflow in a session that has finished one entity and
\* changed another lists the changed one with its new state and leaves the
\* finished one out.
C38_Witness ==
  /\ last.tool = "checkWorkflow"
  /\ \E e \in EntityIds : places[e].state = "Done"
  /\ \E i \in 1..Len(last.reported) :
       /\ last.reported[i].state /= InitState(last.reported[i].id)
       /\ last.reported[i].assignee /= InitAssignee(last.reported[i].id)

\* C39: when a tool call has returned, no place carries justTransitioned.
C39_MarkerCleared ==
  \A e \in EntityIds : ~places[e].justTransitioned

====
